---- MODULE Spec2Model ----
(***************************************************************************)
(* A model of DiscourseAPI (src/src/api.ts): the forum client of the       *)
(* Obsidian "publish to Discourse" plugin.  One call runs at a time; each  *)
(* await of requestUrl is a suspension point answered by the environment   *)
(* with a response (status + body) or a transport exception.               *)
(***************************************************************************)
EXTENDS Integers, Sequences, FiniteSets, TLC

VARIABLES settings, op, pc, args, requests, responses, notices, result, escaped

vars == <<settings, op, pc, args, requests, responses, notices, result, escaped>>

----------------------------------------------------------------------------
(* Bounds of the model *)

\* longest "errors" array of an error body
MaxErrors == 2
\* most entries of one tags.json body, counting every tag and every tag group
MaxTags == 3
\* most categories of one categories.json body (top-level and subcategories together)
MaxCats == 3
\* most consecutive slashes at the end of baseUrl / at the start of an upload url
MaxSlashes == 2

----------------------------------------------------------------------------
(* JSON values as the code sees them: every value is a record of one shape *)

JUndef == [type |-> "undefined", num |-> 0, str |-> "", arr |-> <<>>]
JNum(n) == [type |-> "number", num |-> n, str |-> "", arr |-> <<>>]
JStr(s) == [type |-> "string", num |-> 0, str |-> s, arr |-> <<>>]
JBool(b) == [type |-> "boolean", num |-> IF b THEN 1 ELSE 0, str |-> "", arr |-> <<>>]
JArr(a) == [type |-> "array", num |-> 0, str |-> "", arr |-> a]

\* JavaScript truthiness, as used by `x && ...`, `if (x)` and `x || y`
Truthy(v) ==
    CASE v.type = "undefined" -> FALSE
      [] v.type = "null" -> FALSE
      [] v.type = "number" -> v.num # 0
      [] v.type = "boolean" -> v.num = 1
      [] v.type = "string" -> v.str # ""
      [] v.type = "array" -> TRUE

\* x.length of a value that is not null/undefined: undefined unless string or array
HasPositiveLength(v) ==
    CASE v.type = "array" -> Len(v.arr) > 0
      [] v.type = "string" -> Len(v.str) > 0
      [] OTHER -> FALSE

\* Array.prototype.join('\n') on an array of strings
RECURSIVE JoinLines(_)
JoinLines(a) ==
    IF Len(a) = 0 THEN ""
    ELSE IF Len(a) = 1 THEN a[1]
    ELSE a[1] \o "\n" \o JoinLines(Tail(a))

\* the translation of a message key (src/i18n is not part of the sources)
t(key) == key

----------------------------------------------------------------------------
(* Responses of requestUrl({..., throw: false}) *)

Statuses == {200, 500}

\* an Error thrown by the transport; message "" is an Error without a message
ExceptionMessages == {"", "net::ERR_FAILED"}

\* the json of an answer is "object" (the body parsed into an object), "null"
\* (JSON null) or "throws" (the json getter throws: the body is not JSON)
Threw(msg, emptyBody) ==
    [threw |-> TRUE, message |-> msg, status |-> 0, json |-> "throws", body |-> emptyBody]

Answered(status, json, body) ==
    [threw |-> FALSE, message |-> "", status |-> status, json |-> json, body |-> body]

ResponsesOver(bodies, emptyBody) ==
    {Threw(m, emptyBody) : m \in ExceptionMessages}
    \cup {Answered(s, "object", b) : s \in Statuses, b \in bodies}
    \cup {Answered(s, k, emptyBody) : s \in Statuses, k \in {"null", "throws"}}

\* all sequences over S of length at most n
SeqsUpTo(S, n) == UNION {[1..k -> S] : k \in 0..n}

\* URLs are sequences of characters
Http == <<"h", "t", "t", "p", ":", "/", "/">>
Https == <<"h", "t", "t", "p", "s", ":", "/", "/">>

----------------------------------------------------------------------------
(* createPost / updatePost *)

ErrorTexts == {"e1", "e2"}

PostBodies ==
    [id : {JUndef, JNum(0), JNum(7), JStr("abc")},
     topic_id : {JUndef, JNum(3)},
     errors : {JUndef, JStr("oops")} \cup {JArr(a) : a \in SeqsUpTo(ErrorTexts, MaxErrors)},
     error : {JUndef, JStr(""), JStr("denied")}]

EmptyPostBody == [id |-> JUndef, topic_id |-> JUndef, errors |-> JUndef, error |-> JUndef]

PostResponses == ResponsesOver(PostBodies, EmptyPostBody)

\* the answers to the post PUT of updatePost, of which only the status is read
StatusResponses == ResponsesOver({EmptyPostBody}, EmptyPostBody)

Success(postId, topicId) ==
    [success |-> TRUE, postId |-> postId, topicId |-> topicId, error |-> JUndef]

Failure(error) ==
    [success |-> FALSE, postId |-> JUndef, topicId |-> JUndef, error |-> error]

NoArgs == [postId |-> 0, topicId |-> 0]
NoResult == [none |-> TRUE]

\* how a block of code ends: with a value (and the notifications it opened)
\* or with a raised exception
Value(v, said) == [raised |-> FALSE, message |-> "", value |-> v, said |-> said]
Raise(msg) == [raised |-> TRUE, message |-> msg, value |-> NoResult, said |-> <<>>]

\* the messages of the errors the JavaScript runtime raises
JsonSyntaxError == "Unexpected token in JSON"
NullReadError == "Cannot read properties of null"
NotAFunctionError == "is not a function"

\* `${t(key)} (${response.status})`
StatusMessage(key, status) == JStr(t(key) \o " (" \o ToString(status) \o ")")

\* the inner try block with the singular error field read first
ErrorFieldsErrorFirst(r) ==
    IF r.json = "throws" THEN Raise(JsonSyntaxError)
    ELSE IF r.json = "null" THEN Raise(NullReadError)
    ELSE IF Truthy(r.body.error) THEN Value(Failure(r.body.error), <<>>)
    ELSE IF Truthy(r.body.errors) /\ HasPositiveLength(r.body.errors)
         THEN IF r.body.errors.type = "array"
              THEN Value(Failure(JStr(JoinLines(r.body.errors.arr))), <<>>)
              ELSE Raise(NotAFunctionError)
    ELSE Value(NoResult, <<>>)

\* the inner try block of createPost (123-136) and updatePost (203-216): it
\* returns from the errors array or the error field, raises, or falls through
ErrorFields(r) ==
    IF r.json = "throws" THEN Raise(JsonSyntaxError)
    ELSE IF r.json = "null" THEN Raise(NullReadError)
    ELSE IF Truthy(r.body.errors) /\ HasPositiveLength(r.body.errors)
         THEN IF r.body.errors.type = "array"
              THEN Value(Failure(JStr(JoinLines(r.body.errors.arr))), <<>>)
              ELSE Raise(NotAFunctionError)
    ELSE IF Truthy(r.body.error) THEN Value(Failure(r.body.error), <<>>)
    ELSE Value(NoResult, <<>>)

\* the non-200 branch: the inner try, its parseError handler and the
\* statement after it both return the generic message
ExtractError(r, failedKey) ==
    LET inner == ErrorFields(r)
    IN  IF inner.raised THEN Value(Failure(StatusMessage(failedKey, r.status)), <<>>)
        ELSE IF inner.value = NoResult
             THEN Value(Failure(StatusMessage(failedKey, r.status)), <<>>)
        ELSE inner

\* the outer catch handler: `${t(key)}: ${error.message || t('UNKNOWN_ERROR')}`
CaughtError(message, failedKey) ==
    Value(Failure(JStr(t(failedKey) \o ": "
                       \o (IF message # "" THEN message ELSE t("UNKNOWN_ERROR")))), <<>>)

\* the try block of createPost
createPostTry(r) ==
    IF r.threw THEN Raise(r.message)
    ELSE IF r.status = 200
         THEN IF r.json = "throws" THEN Raise(JsonSyntaxError)
              ELSE IF r.json = "object" /\ Truthy(r.body.id)
                   THEN Value(Success(r.body.id, r.body.topic_id), <<>>)
                   ELSE Value(Failure(JStr(t("POST_ID_ERROR"))), <<>>)
         ELSE ExtractError(r, "PUBLISH_FAILED")

\* createPost without its outer catch handler
createPostUncaught(r) == createPostTry(r)

createPost(r) ==
    LET tried == createPostTry(r)
    IN  IF tried.raised THEN CaughtError(tried.message, "PUBLISH_FAILED") ELSE tried

PostIds == {11, 12}
TopicIds == {21, 22}

PostsRequest == [method |-> "POST", path |-> "/posts.json", id |-> 0]
PostPut(postId) == [method |-> "PUT", path |-> "/posts/{postId}", id |-> postId]
TopicPut(topicId) == [method |-> "PUT", path |-> "/t/{topicId}", id |-> topicId]

\* a call starts when no other call is running
Idle == pc \in {"idle", "done"}

\* the start of a call clears the per-call history and runs up to the first await
Begin(name, a, issued, at) ==
    /\ op' = name
    /\ args' = a
    /\ requests' = issued
    /\ responses' = <<>>
    /\ notices' = <<>>
    /\ result' = NoResult
    /\ escaped' = FALSE
    /\ pc' = at
    /\ UNCHANGED settings

\* a call ends: it returns a value, or its exception reaches the caller
Finish(outcome) ==
    /\ result' = outcome.value
    /\ escaped' = outcome.raised
    /\ notices' = notices \o outcome.said
    /\ pc' = "done"
    /\ UNCHANGED <<settings, op, args, requests>>

\* a call issues one more request and suspends at the next await
Issue(request, at) ==
    /\ requests' = requests \o <<request>>
    /\ pc' = at
    /\ UNCHANGED <<settings, op, args, notices, result, escaped>>

CreatePostCall ==
    /\ Idle
    /\ Begin("createPost", NoArgs, <<PostsRequest>>, "await")

CreatePostAnswer ==
    /\ op = "createPost" /\ pc = "await"
    /\ \E r \in PostResponses :
          /\ responses' = <<r>>
          /\ Finish(createPost(r))

UpdatePostCall ==
    /\ Idle
    /\ \E p \in PostIds, tp \in TopicIds :
        Begin("updatePost", [postId |-> p, topicId |-> tp], <<PostPut(p)>>, "await")

\* the check of the post PUT's status left out
updatePostGoesOnAnyStatus(r) == ~r.threw

\* updatePost up to the check of the post PUT's status (167-184): TRUE when
\* the call goes on to the topic PUT
updatePostGoesOn(r) == ~r.threw /\ r.status = 200

\* what updatePost returns when the post PUT ends the call
updatePostStopped(r) ==
    IF r.threw THEN CaughtError(r.message, "UPDATE_FAILED")
    ELSE Value(Failure(StatusMessage("UPDATE_FAILED", r.status)), <<>>)

\* the post PUT is answered: return on an exception or a non-200 status,
\* otherwise issue the topic PUT and suspend again
UpdatePostAnswerPost ==
    /\ op = "updatePost" /\ pc = "await"
    /\ \E r \in StatusResponses :
          /\ responses' = <<r>>
          /\ IF updatePostGoesOn(r)
             THEN Issue(TopicPut(args.topicId), "await2")
             ELSE Finish(updatePostStopped(r))

\* the topic PUT counts as accepted whatever its status
updatePostTopicTryAnyStatus(r) ==
    IF r.threw THEN Raise(r.message)
    ELSE Value(Success(JUndef, JUndef), <<>>)

\* the try block of updatePost from the answer to the topic PUT on
updatePostTopicTry(r) ==
    IF r.threw THEN Raise(r.message)
    ELSE IF r.status = 200 THEN Value(Success(JUndef, JUndef), <<>>)
    ELSE ExtractError(r, "UPDATE_FAILED")

updatePostTopic(r) ==
    LET tried == updatePostTopicTry(r)
    IN  IF tried.raised THEN CaughtError(tried.message, "UPDATE_FAILED") ELSE tried

UpdatePostAnswerTopic ==
    /\ op = "updatePost" /\ pc = "await2"
    /\ \E r \in PostResponses :
          /\ responses' = responses \o <<r>>
          /\ Finish(updatePostTopic(r))

----------------------------------------------------------------------------
(* uploadImage *)

\* the values of the url and short_url fields; a string is its characters
UUndef == [type |-> "undefined", chars |-> <<>>]
UNum == [type |-> "number", chars |-> <<>>]
UStr(chars) == [type |-> "string", chars |-> chars]

UTruthy(v) == v.type = "number" \/ (v.type = "string" /\ Len(v.chars) > 0)

\* k slashes
Slashes(k) == [i \in 1..k |-> "/"]

\* String.prototype.startsWith
StartsWith(s, prefix) ==
    Len(s) >= Len(prefix) /\ SubSeq(s, 1, Len(prefix)) = prefix

\* baseUrl.replace(/\/$/, ''): the regular expression matches one slash at the end
RemoveTrailingSlash(s) ==
    IF Len(s) > 0 /\ s[Len(s)] = "/" THEN SubSeq(s, 1, Len(s) - 1) ELSE s

\* url.startsWith('/') ? url : `/${url}`
UrlPath(url) == IF StartsWith(url, <<"/">>) THEN url ELSE <<"/">> \o url

\* lines 59-69: the derivation of fullUrl from a truthy string url
FullUrl(baseUrl, url) ==
    IF StartsWith(url, Http) \/ StartsWith(url, Https) THEN url
    ELSE RemoveTrailingSlash(baseUrl) \o UrlPath(url)

UploadUrls ==
    {UUndef, UNum, UStr(Http \o <<"c">>), UStr(Https \o <<"c">>), UStr(<<"h", "t", "t", "p">>)}
    \cup {UStr(Slashes(k) \o rest) : k \in 0..MaxSlashes, rest \in {<<>>, <<"u">>}}

UploadBodies == [url : UploadUrls, short_url : {UUndef, UStr(<<"s">>)}]

EmptyUploadBody == [url |-> UUndef, short_url |-> UUndef]

UploadResponses == ResponsesOver(UploadBodies, EmptyUploadBody)

UploadRequest == [method |-> "POST", path |-> "/uploads.json", id |-> 0]

Uploaded(shortUrl, fullUrl) == [isNull |-> FALSE, shortUrl |-> shortUrl, fullUrl |-> fullUrl]
NullUpload == [isNull |-> TRUE, shortUrl |-> UUndef, fullUrl |-> UUndef]

\* String(error) of an Error with the given message
ErrorText(message) == IF message = "" THEN "Error" ELSE "Error: " \o message

\* the try block of uploadImage from the answer to the POST on (54-78)
uploadImageTry(baseUrl, r) ==
    IF r.threw THEN Raise(r.message)
    ELSE IF r.status = 200
         THEN IF r.json = "throws" THEN Raise(JsonSyntaxError)
              ELSE IF r.json = "null" THEN Raise(NullReadError)
              ELSE IF ~UTruthy(r.body.url)
                   THEN Value(Uploaded(r.body.short_url, UUndef), <<>>)
              ELSE IF r.body.url.type # "string" THEN Raise(NotAFunctionError)
              ELSE Value(Uploaded(r.body.short_url,
                                  UStr(FullUrl(baseUrl, r.body.url.chars))), <<>>)
         ELSE Value(NullUpload, <<"Error uploading image: " \o ToString(r.status)>>)

\* the catch handler of uploadImage (79-82)
uploadImageCaught(message) ==
    Value(NullUpload, <<"Exception while uploading image: " \o ErrorText(message)>>)

uploadImage(baseUrl, r) ==
    LET tried == uploadImageTry(baseUrl, r)
    IN  IF tried.raised THEN uploadImageCaught(tried.message) ELSE tried

\* the call suspends in vault.readBinary before any request is made
UploadImageCall ==
    /\ Idle
    /\ Begin("uploadImage", NoArgs, <<>>, "read")

\* vault.readBinary returns the bytes (the POST is issued) or throws
UploadImageRead ==
    /\ op = "uploadImage" /\ pc = "read"
    /\ UNCHANGED responses
    /\ \/ Issue(UploadRequest, "await")
       \/ \E m \in ExceptionMessages : Finish(uploadImageCaught(m))

UploadImageAnswer ==
    /\ op = "uploadImage" /\ pc = "await"
    /\ \E r \in UploadResponses :
          /\ responses' = <<r>>
          /\ Finish(uploadImage(settings.baseUrl, r))

----------------------------------------------------------------------------
(* fetchCategories *)

\* the id and name of a category or subcategory of the response
CategoryEntries == {[id |-> 1, name |-> "A"], [id |-> 2, name |-> "B"]}

\* subcategory_list: absent, or a list of entries
NoSubcategories == [present |-> FALSE, items |-> <<>>]
Subcategories(items) == [present |-> TRUE, items |-> items]

\* the categories of 1..n entries: itself and its subcategories
CategoriesOfSize(n) ==
    IF n = 1
    THEN {[id |-> e.id, name |-> e.name, subcategory_list |-> sl] :
             e \in CategoryEntries, sl \in {NoSubcategories, Subcategories(<<>>)}}
    ELSE {[id |-> e.id, name |-> e.name, subcategory_list |-> Subcategories(subs)] :
             e \in CategoryEntries, subs \in [1..(n - 1) -> CategoryEntries]}

\* the lists of categories of at most n entries in all
RECURSIVE CategoryLists(_)
CategoryLists(n) ==
    {<<>>} \cup UNION {{<<c>> \o rest : c \in CategoriesOfSize(k), rest \in CategoryLists(n - k)} :
                       k \in 1..n}

\* data.category_list: "absent", "empty" (no categories field), "list", or
\* "notArray" (categories is a truthy value without forEach)
CategoryBodies ==
    {[category_list |-> k, categories |-> <<>>] : k \in {"absent", "empty", "notArray"}}
    \cup {[category_list |-> "list", categories |-> cs] : cs \in CategoryLists(MaxCats)}

EmptyCategoryBody == [category_list |-> "absent", categories |-> <<>>]

CategoryResponses == ResponsesOver(CategoryBodies, EmptyCategoryBody)

CategoriesRequest ==
    [method |-> "GET", path |-> "/categories.json?include_subcategories=true", id |-> 0]

\* the subcategories pushed with the id of their parent
RECURSIVE FlattenSubcategoriesParentId(_, _)
FlattenSubcategoriesParentId(category, subs) ==
    IF subs = <<>> THEN <<>>
    ELSE <<[id |-> category.id, name |-> category.name \o " > " \o Head(subs).name]>>
         \o FlattenSubcategoriesParentId(category, Tail(subs))

\* lines 264-269: the entries pushed for the subcategories of one category
RECURSIVE FlattenSubcategories(_, _)
FlattenSubcategories(category, subs) ==
    IF subs = <<>> THEN <<>>
    ELSE <<[id |-> Head(subs).id, name |-> category.name \o " > " \o Head(subs).name]>>
         \o FlattenSubcategories(category, Tail(subs))

\* lines 256-271: the forEach over data.category_list.categories
RECURSIVE FlattenCategories(_)
FlattenCategories(cs) ==
    IF cs = <<>> THEN <<>>
    ELSE LET category == Head(cs)
         IN  <<[id |-> category.id, name |-> category.name]>>
             \o (IF category.subcategory_list.present
                 THEN FlattenSubcategories(category, category.subcategory_list.items)
                 ELSE <<>>)
             \o FlattenCategories(Tail(cs))

\* the try block of fetchCategories from the answer to the GET on (251-278)
fetchCategoriesTry(r) ==
    IF r.threw THEN Raise(r.message)
    ELSE IF r.status = 200
         THEN IF r.json = "throws" THEN Raise(JsonSyntaxError)
              ELSE IF r.json = "null" \/ r.body.category_list \in {"absent", "empty"}
                   THEN Value(<<>>, <<>>)
              ELSE IF r.body.category_list = "notArray" THEN Raise(NotAFunctionError)
              ELSE Value(FlattenCategories(r.body.categories), <<>>)
         ELSE Value(<<>>, <<"Error fetching categories: " \o ToString(r.status)>>)

\* the catch handler of fetchCategories (279-282)
fetchCategoriesCaught(message) ==
    Value(<<>>, <<"Exception while fetching categories: " \o ErrorText(message)>>)

fetchCategories(r) ==
    LET tried == fetchCategoriesTry(r)
    IN  IF tried.raised THEN fetchCategoriesCaught(tried.message) ELSE tried

FetchCategoriesCall ==
    /\ Idle
    /\ Begin("fetchCategories", NoArgs, <<CategoriesRequest>>, "await")

FetchCategoriesAnswer ==
    /\ op = "fetchCategories" /\ pc = "await"
    /\ \E r \in CategoryResponses :
          /\ responses' = <<r>>
          /\ Finish(fetchCategories(r))

----------------------------------------------------------------------------
(* checkCanCreateTags *)

SiteBodies == [can_create_tag : {JUndef, JBool(TRUE), JBool(FALSE), JNum(1)}]

EmptySiteBody == [can_create_tag |-> JUndef]

SiteResponses == ResponsesOver(SiteBodies, EmptySiteBody)

SiteRequest == [method |-> "GET", path |-> "/site.json", id |-> 0]

\* the try block of checkCanCreateTags from the answer to the GET on (369-376)
checkCanCreateTagsTry(r) ==
    IF r.threw THEN Raise(r.message)
    ELSE IF r.status = 200
         THEN IF r.json = "throws" THEN Raise(JsonSyntaxError)
              ELSE IF r.json = "object" /\ Truthy(r.body.can_create_tag)
                   THEN Value(r.body.can_create_tag, <<>>)
                   ELSE Value(JBool(FALSE), <<>>)
         ELSE Value(JBool(FALSE), <<>>)

checkCanCreateTags(r) ==
    LET tried == checkCanCreateTagsTry(r)
    IN  IF tried.raised THEN Value(JBool(FALSE), <<>>) ELSE tried

----------------------------------------------------------------------------
(* fetchTags *)

\* a tag of the response: its name and its count (undefined when missing)
TagEntries ==
    {[name |-> "a", count |-> c] : c \in {JUndef, JNum(1), JNum(2)}}
    \cup {[name |-> "b", count |-> JNum(1)], [name |-> "c", count |-> JNum(2)]}

\* a tag group: its tags field is absent or a list of tags
GroupsOfCost(k) ==
    IF k = 1
    THEN {[hasTags |-> h, tags |-> <<>>] : h \in BOOLEAN}
    ELSE {[hasTags |-> TRUE, tags |-> ts] : ts \in [1..(k - 1) -> TagEntries]}

\* the lists of tag groups of at most n groups and tags in all
RECURSIVE GroupLists(_)
GroupLists(n) ==
    {<<>>} \cup UNION {{<<g>> \o rest : g \in GroupsOfCost(k), rest \in GroupLists(n - k)} :
                       k \in 1..n}

\* data.extras: "absent", "noGroups" (no tag_groups field) or "groups"
ExtrasWithin(n) ==
    {[kind |-> k, groups |-> <<>>] : k \in {"absent", "noGroups"}}
    \cup {[kind |-> "groups", groups |-> gl] : gl \in GroupLists(n)}

\* data.tags: "absent", "list" or "notArray" (a truthy value without forEach)
TagBodies ==
    {[tags |-> [kind |-> k, items |-> <<>>], extras |-> [kind |-> "absent", groups |-> <<>>]] :
        k \in {"absent", "notArray"}}
    \cup UNION {{[tags |-> [kind |-> "list", items |-> top], extras |-> ex] :
                    top \in [1..n -> TagEntries], ex \in ExtrasWithin(MaxTags - n)} :
                n \in 0..MaxTags}

EmptyTagBody ==
    [tags |-> [kind |-> "absent", items |-> <<>>], extras |-> [kind |-> "absent", groups |-> <<>>]]

TagResponses == ResponsesOver(TagBodies, EmptyTagBody)

TagsRequest == [method |-> "GET", path |-> "/tags.json", id |-> 0]

\* tag.count || 0
CountOf(tag) == IF Truthy(tag.count) THEN tag.count.num ELSE 0

\* Math.max
Max(x, y) == IF x >= y THEN x ELSE y

\* allTags is a Map: a sequence of {name, count} in insertion order, one per name
MapIndex(m, name) ==
    IF \E i \in 1..Len(m) : m[i].name = name
    THEN CHOOSE i \in 1..Len(m) : m[i].name = name
    ELSE 0

\* Map.prototype.set: a new key goes last, an old key keeps its place
MapSet(m, name, count) ==
    IF MapIndex(m, name) = 0
    THEN Append(m, [name |-> name, count |-> count])
    ELSE [m EXCEPT ![MapIndex(m, name)].count = count]

\* lines 311-313: every top-level tag is set
RECURSIVE AddTopLevel(_, _)
AddTopLevel(m, tags) ==
    IF tags = <<>> THEN m
    ELSE AddTopLevel(MapSet(m, Head(tags).name, CountOf(Head(tags))), Tail(tags))

\* the counts of a name added up
AddGroupTagSum(m, tag) ==
    IF MapIndex(m, tag.name) # 0
    THEN MapSet(m, tag.name, m[MapIndex(m, tag.name)].count + CountOf(tag))
    ELSE MapSet(m, tag.name, CountOf(tag))

\* lines 319-327: a tag of a group raises the count of its name or is set
AddGroupTag(m, tag) ==
    IF MapIndex(m, tag.name) # 0
    THEN MapSet(m, tag.name, Max(m[MapIndex(m, tag.name)].count, CountOf(tag)))
    ELSE MapSet(m, tag.name, CountOf(tag))

RECURSIVE AddGroupTags(_, _)
AddGroupTags(m, tags) ==
    IF tags = <<>> THEN m
    ELSE AddGroupTags(AddGroupTag(m, Head(tags)), Tail(tags))

\* lines 317-329: the forEach over data.extras.tag_groups
RECURSIVE AddGroups(_, _)
AddGroups(m, groups) ==
    IF groups = <<>> THEN m
    ELSE AddGroups(IF Head(groups).hasTags THEN AddGroupTags(m, Head(groups).tags) ELSE m,
                   Tail(groups))

\* lines 308-330: the merge of both sources
MergeTags(body) ==
    LET top == AddTopLevel(<<>>, body.tags.items)
    IN  IF body.extras.kind = "groups" THEN AddGroups(top, body.extras.groups) ELSE top

\* the comparator of line 334: (a, b) => b.count - a.count
CompareCount(a, b) == b.count - a.count

\* a sort that puts an element before the elements of the same count
RECURSIVE InsertSortedUnstable(_, _)
InsertSortedUnstable(sorted, x) ==
    IF sorted = <<>> THEN <<x>>
    ELSE IF CompareCount(Head(sorted), x) < 0
         THEN <<Head(sorted)>> \o InsertSortedUnstable(Tail(sorted), x)
         ELSE <<x>> \o sorted

\* Array.prototype.sort is stable: an element goes behind every element the
\* comparator does not order after it
RECURSIVE InsertSorted(_, _)
InsertSorted(sorted, x) ==
    IF sorted = <<>> THEN <<x>>
    ELSE IF CompareCount(Head(sorted), x) <= 0
         THEN <<Head(sorted)>> \o InsertSorted(Tail(sorted), x)
         ELSE <<x>> \o sorted

RECURSIVE SortByCount(_)
SortByCount(m) ==
    IF m = <<>> THEN <<>>
    ELSE InsertSorted(SortByCount(SubSeq(m, 1, Len(m) - 1)), m[Len(m)])

\* the flag put on the first tag only
WithCanCreateOnFirst(sorted, canCreateTags) ==
    [i \in 1..Len(sorted) |->
        [name |-> sorted[i].name, canCreate |-> IF i = 1 THEN canCreateTags ELSE JBool(FALSE)]]

\* lines 335-338: the map to the final format
WithCanCreate(sorted, canCreateTags) ==
    [i \in 1..Len(sorted) |-> [name |-> sorted[i].name, canCreate |-> canCreateTags]]

\* the capability is checked whatever the status of the answer
fetchTagsGoesOnAnyStatus(r) ==
    ~r.threw /\ r.json = "object" /\ r.body.tags.kind # "absent"

\* fetchTags up to the await of checkCanCreateTags (300-305): TRUE when the
\* answer to GET /tags.json makes the call check the capability
fetchTagsGoesOn(r) ==
    ~r.threw /\ r.status = 200 /\ r.json = "object" /\ r.body.tags.kind # "absent"

\* the catch handler of fetchTags (348-351)
fetchTagsCaught(message) ==
    Value(<<>>, <<"Exception while fetching tags: " \o ErrorText(message)>>)

\* fetchTags without the notification of a refused request
fetchTagsStoppedSilent(r) ==
    IF r.threw THEN fetchTagsCaught(r.message)
    ELSE IF r.status # 200 THEN Value(<<>>, <<>>)
    ELSE IF r.json = "throws" THEN fetchTagsCaught(JsonSyntaxError)
    ELSE Value(<<>>, <<>>)

\* what fetchTags returns when the answer to GET /tags.json ends the call
fetchTagsStopped(r) ==
    IF r.threw THEN fetchTagsCaught(r.message)
    ELSE IF r.status # 200
         THEN Value(<<>>, <<"Error fetching tags: " \o ToString(r.status)>>)
    ELSE IF r.json = "throws" THEN fetchTagsCaught(JsonSyntaxError)
    ELSE Value(<<>>, <<>>)

\* the try block of fetchTags after checkCanCreateTags has returned (308-343)
fetchTagsMergeTry(r, canCreateTags) ==
    IF r.body.tags.kind = "notArray" THEN Raise(NotAFunctionError)
    ELSE Value(WithCanCreate(SortByCount(MergeTags(r.body)), canCreateTags), <<>>)

fetchTagsMerge(r, canCreateTags) ==
    LET tried == fetchTagsMergeTry(r, canCreateTags)
    IN  IF tried.raised THEN fetchTagsCaught(tried.message) ELSE tried

FetchTagsCall ==
    /\ Idle
    /\ Begin("fetchTags", NoArgs, <<TagsRequest>>, "await")

\* GET /tags.json is answered: return, or call checkCanCreateTags, which
\* issues GET /site.json and suspends
FetchTagsAnswer ==
    /\ op = "fetchTags" /\ pc = "await"
    /\ \E r \in TagResponses :
          /\ responses' = <<r>>
          /\ IF fetchTagsGoesOn(r)
             THEN Issue(SiteRequest, "await2")
             ELSE Finish(fetchTagsStopped(r))

\* GET /site.json is answered: checkCanCreateTags returns and fetchTags
\* runs to its end
FetchTagsAnswerSite ==
    /\ op = "fetchTags" /\ pc = "await2"
    /\ \E r \in SiteResponses :
          /\ responses' = responses \o <<r>>
          /\ Finish(fetchTagsMerge(responses[1], checkCanCreateTags(r).value))

\* checkCanCreateTags called on its own
CheckCanCreateTagsCall ==
    /\ Idle
    /\ Begin("checkCanCreateTags", NoArgs, <<SiteRequest>>, "await")

CheckCanCreateTagsAnswer ==
    /\ op = "checkCanCreateTags" /\ pc = "await"
    /\ \E r \in SiteResponses :
          /\ responses' = <<r>>
          /\ Finish(checkCanCreateTags(r))

----------------------------------------------------------------------------
(* testApiKey *)

Tested(success, message) == [success |-> success, message |-> message]

\* only the base URL is required
MissingBaseUrlOnly(st) == st.baseUrl = <<>>

\* line 384: !this.settings.baseUrl || !this.settings.userApiKey
MissingSettings(st) == st.baseUrl = <<>> \/ st.userApiKey = ""

\* every 200 answer counts as a success, whatever its body
testApiKeyTryAnyBody(r) ==
    IF r.threw THEN Raise(r.message)
    ELSE IF r.status = 200
         THEN Value(Tested(TRUE, t("API_TEST_SUCCESS")), <<>>)
         ELSE Value(Tested(FALSE, t("API_KEY_INVALID") \o " (" \o ToString(r.status) \o ")"), <<>>)

\* the try block of testApiKey from the answer to the GET on (404-422)
testApiKeyTry(r) ==
    IF r.threw THEN Raise(r.message)
    ELSE IF r.status = 200
         THEN IF r.json = "throws" THEN Raise(JsonSyntaxError)
              ELSE IF r.json = "object"
                   THEN Value(Tested(TRUE, t("API_TEST_SUCCESS")), <<>>)
                   ELSE Value(Tested(FALSE, t("API_KEY_INVALID")), <<>>)
         ELSE Value(Tested(FALSE, t("API_KEY_INVALID") \o " (" \o ToString(r.status) \o ")"), <<>>)

\* the catch handler of testApiKey (423-428)
testApiKey(r) ==
    LET tried == testApiKeyTry(r)
    IN  IF tried.raised
        THEN Value(Tested(FALSE, t("API_KEY_INVALID") \o ": "
                     \o (IF tried.message # "" THEN tried.message ELSE t("UNKNOWN_ERROR"))), <<>>)
        ELSE tried

\* with a setting missing the call returns at once, without a request
TestApiKeyCall ==
    /\ Idle
    /\ IF MissingSettings(settings)
       THEN /\ op' = "testApiKey"
            /\ args' = NoArgs
            /\ requests' = <<>>
            /\ responses' = <<>>
            /\ notices' = <<>>
            /\ result' = Tested(FALSE, t("MISSING_SETTINGS"))
            /\ escaped' = FALSE
            /\ pc' = "done"
            /\ UNCHANGED settings
       ELSE Begin("testApiKey", NoArgs, <<SiteRequest>>, "await")

TestApiKeyAnswer ==
    /\ op = "testApiKey" /\ pc = "await"
    /\ \E r \in SiteResponses :
          /\ responses' = <<r>>
          /\ Finish(testApiKey(r))

----------------------------------------------------------------------------
(* fetchTopicInfo / fetchTopicTags *)

TopicBodies ==
    [tags : {JUndef, JArr(<<>>), JArr(<<"x">>), JArr(<<"y", "x">>)},
     category_id : {JUndef, JNum(5)}]

EmptyTopicBody == [tags |-> JUndef, category_id |-> JUndef]

TopicResponses == ResponsesOver(TopicBodies, EmptyTopicBody)

TopicRequest(topicId) == [method |-> "GET", path |-> "/t/{topicId}.json", id |-> topicId]

TopicInfo(tags, categoryId) == [tags |-> tags, categoryId |-> categoryId]

\* the try block of fetchTopicInfo from the answer to the GET on (446-454)
fetchTopicInfoTry(r) ==
    IF r.threw THEN Raise(r.message)
    ELSE IF r.status = 200
         THEN IF r.json = "throws" THEN Raise(JsonSyntaxError)
              ELSE IF r.json = "null" THEN Value(TopicInfo(<<>>, JUndef), <<>>)
              ELSE Value(TopicInfo(IF Truthy(r.body.tags) THEN r.body.tags.arr ELSE <<>>,
                                   r.body.category_id), <<>>)
         ELSE Value(TopicInfo(<<>>, JUndef), <<>>)

\* fetchTopicInfo without its catch handler
fetchTopicInfoUncaught(r) == fetchTopicInfoTry(r)

\* the catch handler of fetchTopicInfo (455-458)
fetchTopicInfo(r) ==
    LET tried == fetchTopicInfoTry(r)
    IN  IF tried.raised
        THEN Value(TopicInfo(<<>>, JUndef),
                   <<"Exception while fetching topic info: " \o ErrorText(tried.message)>>)
        ELSE tried

\* fetchTopicTags awaits fetchTopicInfo and has a catch handler of its own (466-469)
fetchTopicTags(r) ==
    LET info == fetchTopicInfo(r)
    IN  IF info.raised
        THEN Value(<<>>, info.said
                         \o <<"Exception while fetching topic tags: " \o ErrorText(info.message)>>)
        ELSE Value(info.value.tags, info.said)

FetchTopicInfoCall ==
    /\ Idle
    /\ \E tp \in TopicIds :
        Begin("fetchTopicInfo", [postId |-> 0, topicId |-> tp], <<TopicRequest(tp)>>, "await")

FetchTopicInfoAnswer ==
    /\ op = "fetchTopicInfo" /\ pc = "await"
    /\ \E r \in TopicResponses :
          /\ responses' = <<r>>
          /\ Finish(fetchTopicInfo(r))

FetchTopicTagsCall ==
    /\ Idle
    /\ \E tp \in TopicIds :
        Begin("fetchTopicTags", [postId |-> 0, topicId |-> tp], <<TopicRequest(tp)>>, "await")

FetchTopicTagsAnswer ==
    /\ op = "fetchTopicTags" /\ pc = "await"
    /\ \E r \in TopicResponses :
          /\ responses' = <<r>>
          /\ Finish(fetchTopicTags(r))

----------------------------------------------------------------------------

Settings == [baseUrl : {<<>>, Https \o <<"f">>}, userApiKey : {"", "key"}]

Init ==
    /\ settings \in Settings
    /\ op = "none"
    /\ pc = "idle"
    /\ args = NoArgs
    /\ requests = <<>>
    /\ responses = <<>>
    /\ notices = <<>>
    /\ result = NoResult
    /\ escaped = FALSE

\* the client constructed with a base URL that ends in any number of slashes
BaseUrls == {<<>>} \cup {Https \o <<"f">> \o Slashes(k) : k \in 0..MaxSlashes}

InitUpload ==
    /\ settings \in [baseUrl : BaseUrls, userApiKey : {"key"}]
    /\ op = "none"
    /\ pc = "idle"
    /\ args = NoArgs
    /\ requests = <<>>
    /\ responses = <<>>
    /\ notices = <<>>
    /\ result = NoResult
    /\ escaped = FALSE

NextUpload ==
    \/ UploadImageCall
    \/ UploadImageRead
    \/ UploadImageAnswer

\* the uploads of a client of any base URL
SpecUpload == InitUpload /\ [][NextUpload]_vars

Next ==
    \/ CreatePostCall
    \/ CreatePostAnswer
    \/ UpdatePostCall
    \/ UpdatePostAnswerPost
    \/ UpdatePostAnswerTopic
    \/ UploadImageCall
    \/ UploadImageRead
    \/ UploadImageAnswer
    \/ FetchCategoriesCall
    \/ FetchCategoriesAnswer
    \/ FetchTagsCall
    \/ FetchTagsAnswer
    \/ FetchTagsAnswerSite
    \/ CheckCanCreateTagsCall
    \/ CheckCanCreateTagsAnswer
    \/ TestApiKeyCall
    \/ TestApiKeyAnswer
    \/ FetchTopicInfoCall
    \/ FetchTopicInfoAnswer
    \/ FetchTopicTagsCall
    \/ FetchTopicTagsAnswer

Spec == Init /\ [][Next]_vars

----------------------------------------------------------------------------
(* Properties of createPost and updatePost *)

Done(name) == op = name /\ pc = "done"

\* the positions of the requests of the running call that go to a topic PUT
TopicPutPositions == {i \in 1..Len(requests) : requests[i].path = "/t/{topicId}"}

\* C1: in an updatePost call the topic PUT is issued only after the post PUT
\* of that call was answered with status 200; when the post PUT is answered
\* with another status no topic PUT is issued and the call returns
\* success: false.
C1_TopicPutOnlyAfterPostPut200 ==
    op = "updatePost" =>
        /\ requests[1] = PostPut(args.postId)
        /\ \A i \in TopicPutPositions :
              /\ i = 2
              /\ requests[i] = TopicPut(args.topicId)
              /\ Len(responses) >= 1
              /\ ~responses[1].threw
              /\ responses[1].status = 200
        /\ (Len(responses) >= 1 /\ ~responses[1].threw /\ responses[1].status # 200) =>
              /\ pc = "done"
              /\ TopicPutPositions = {}
              /\ ~escaped
              /\ result.success = FALSE

\* an updatePost call that issued its topic PUT and has returned
C1_Witness ==
    /\ Done("updatePost")
    /\ TopicPutPositions = {2}
    /\ Len(responses) = 2

\* C2: createPost returns success: true exactly when the status is 200 and
\* the body holds a numeric id.
C2_SuccessIffNumericId ==
    Done("createPost") =>
        /\ ~escaped
        /\ result.success <=>
              /\ ~responses[1].threw
              /\ responses[1].status = 200
              /\ responses[1].json = "object"
              /\ responses[1].body.id.type = "number"

\* the value is present (an absent field reads as undefined)
Present(v) == v.type # "undefined"

\* C3: every createPost call returns either success: true with a postId and
\* a topicId and no error, or success: false with an error and neither id;
\* no exception reaches the caller.
C3_DiscriminatedOutcome ==
    Done("createPost") =>
        /\ ~escaped
        /\ \/ /\ result.success
              /\ Present(result.postId)
              /\ Present(result.topicId)
              /\ ~Present(result.error)
           \/ /\ ~result.success
              /\ Present(result.error)
              /\ ~Present(result.postId)
              /\ ~Present(result.topicId)

\* the generic message of a failed createPost that carries the status code
PublishFailedWithStatus(r) ==
    JStr(t("PUBLISH_FAILED") \o " (" \o ToString(r.status) \o ")")

\* the message of a createPost that caught an exception
PublishFailedWithMessage(message) ==
    JStr(t("PUBLISH_FAILED") \o ": " \o (IF message = "" THEN t("UNKNOWN_ERROR") ELSE message))

\* the body of the response was parsed and has a non-empty errors array
HasErrorsArray(r) ==
    r.json = "object" /\ r.body.errors.type = "array" /\ Len(r.body.errors.arr) > 0

\* C4 as stated: on a non-200 answer the error is the joined errors array if
\* that is non-empty, otherwise the singular error string if the body has
\* one, otherwise the generic message with the status code; a transport
\* exception yields the publish-failed message with the exception message or
\* the unknown-error text.
C4_ErrorPriorityAsStated ==
    Done("createPost") =>
        LET r == responses[1]
        IN  IF r.threw THEN result.error = PublishFailedWithMessage(r.message)
            ELSE r.status # 200 =>
                   /\ ~result.success
                   /\ result.error =
                         IF HasErrorsArray(r) THEN JStr(JoinLines(r.body.errors.arr))
                         ELSE IF r.json = "object" /\ r.body.error.type = "string"
                              THEN r.body.error
                         ELSE PublishFailedWithStatus(r)

\* C4 amended: the singular error is used only when it is truthy (a
\* non-empty string) and the errors field has no positive length; an errors
\* field that has a positive length without being an array (a string) yields
\* the generic message, as does an empty error string.
C4_ErrorPriority ==
    Done("createPost") =>
        LET r == responses[1]
        IN  IF r.threw THEN result.error = PublishFailedWithMessage(r.message)
            ELSE r.status # 200 =>
                   /\ ~result.success
                   /\ result.error =
                         IF HasErrorsArray(r) THEN JStr(JoinLines(r.body.errors.arr))
                         ELSE IF /\ r.json = "object"
                                 /\ \/ r.body.errors.type \notin {"array", "string"}
                                    \/ r.body.errors = JArr(<<>>)
                                    \/ r.body.errors = JStr("")
                                 /\ r.body.error.type = "string"
                                 /\ r.body.error.str # ""
                              THEN r.body.error
                         ELSE PublishFailedWithStatus(r)

\* a failed createPost whose body had both a two-element errors array and a
\* singular error
C4_Witness ==
    /\ Done("createPost")
    /\ ~responses[1].threw
    /\ responses[1].status = 500
    /\ HasErrorsArray(responses[1])
    /\ Len(responses[1].body.errors.arr) = 2
    /\ responses[1].body.error = JStr("denied")
    /\ result.error = JStr("e2\ne1")

----------------------------------------------------------------------------
(* Properties of uploadImage, fetchCategories and fetchTags *)

RECURSIVE DropLeadingSlashes(_)
DropLeadingSlashes(s) ==
    IF Len(s) > 0 /\ Head(s) = "/" THEN DropLeadingSlashes(Tail(s)) ELSE s

RECURSIVE DropTrailingSlashes(_)
DropTrailingSlashes(s) ==
    IF Len(s) > 0 /\ s[Len(s)] = "/" THEN DropTrailingSlashes(SubSeq(s, 1, Len(s) - 1)) ELSE s

\* the upload was answered with 200 and a non-empty url that is relative
RelativeUpload ==
    /\ Done("uploadImage")
    /\ Len(responses) = 1
    /\ ~responses[1].threw
    /\ responses[1].status = 200
    /\ responses[1].json = "object"
    /\ responses[1].body.url.type = "string"
    /\ Len(responses[1].body.url.chars) > 0
    /\ ~StartsWith(responses[1].body.url.chars, Http)
    /\ ~StartsWith(responses[1].body.url.chars, Https)

\* C5: for a relative url and a baseUrl that ends with a slash, fullUrl is
\* baseUrl without its trailing slash, then the path, with exactly one slash
\* where the two meet, whether or not the path starts with a slash.
C5_OneSlashAtJoin ==
    (RelativeUpload /\ settings.baseUrl # <<>> /\ settings.baseUrl[Len(settings.baseUrl)] = "/") =>
        /\ ~result.isNull
        /\ result.fullUrl =
              UStr(DropTrailingSlashes(settings.baseUrl) \o <<"/">>
                   \o DropLeadingSlashes(responses[1].body.url.chars))

\* the call's own request was answered with a status other than 200
OwnRequestRefused ==
    Len(responses) >= 1 /\ ~responses[1].threw /\ responses[1].status # 200

\* the call's own request was answered 200 with the given kind of body
OwnRequest200(kinds) ==
    Len(responses) >= 1 /\ ~responses[1].threw /\ responses[1].status = 200
    /\ responses[1].json \in kinds

\* an exception was raised inside the call: by the transport, by the
\* vault, by the json getter or by a read of a body of an unexpected type
RaisedInside ==
    \/ Len(responses) >= 1 /\ responses[1].threw
    \/ OwnRequest200({"throws"})
    \/ op = "uploadImage" /\ requests = <<>>
    \/ op = "uploadImage" /\ OwnRequest200({"null"})
    \/ op = "uploadImage" /\ OwnRequest200({"object"}) /\ responses[1].body.url.type = "number"
    \/ op = "fetchCategories" /\ OwnRequest200({"object"})
          /\ responses[1].body.category_list = "notArray"
    \/ op = "fetchTags" /\ OwnRequest200({"object"})
          /\ responses[1].body.tags.kind = "notArray"
          /\ Len(responses) = 2

\* C6: uploadImage, fetchCategories and fetchTags answer a non-200 status of
\* their own request and any exception raised inside them with a
\* notification and their sentinel (null, resp. an empty list); the two
\* fetches always return a list and no exception reaches the caller.
C6_NotifyAndSentinel ==
    (pc = "done" /\ op \in {"uploadImage", "fetchCategories", "fetchTags"}) =>
        /\ ~escaped
        /\ (OwnRequestRefused \/ RaisedInside) =>
              /\ Len(notices) >= 1
              /\ IF op = "uploadImage" THEN result = NullUpload ELSE result = <<>>
        /\ op # "uploadImage" => DOMAIN result = 1..Len(result)

\* a fetchTags call whose request was refused: it notified and returned []
C6_Witness ==
    /\ Done("fetchTags")
    /\ OwnRequestRefused
    /\ Len(notices) = 1
    /\ result = <<>>

\* the answer to GET /tags.json of a fetchTags call that merged its tags
TagsBody == responses[1].body

\* fetchTags has returned the merge of a body whose tags field is a list
Merged ==
    /\ Done("fetchTags")
    /\ Len(responses) = 2
    /\ TagsBody.tags.kind = "list"

\* every tag nested in extras.tag_groups[].tags, in the order of the response
RECURSIVE GroupTagsOf(_)
GroupTagsOf(groups) ==
    IF groups = <<>> THEN <<>>
    ELSE (IF Head(groups).hasTags THEN Head(groups).tags ELSE <<>>) \o GroupTagsOf(Tail(groups))

TopTags == TagsBody.tags.items
GroupTags == IF TagsBody.extras.kind = "groups" THEN GroupTagsOf(TagsBody.extras.groups) ELSE <<>>

Range(f) == {f[i] : i \in DOMAIN f}
SetMax(S) == CHOOSE x \in S : \A y \in S : x >= y

SeenNames == {e.name : e \in Range(TopTags) \cup Range(GroupTags)}

\* the count the merge holds for a name
UsedCount(name) == MergeTags(TagsBody)[MapIndex(MergeTags(TagsBody), name)].count

\* the counts of the occurrences of a name in a list of tags
CountsIn(tags, name) == {CountOf(tags[i]) : i \in {k \in DOMAIN tags : tags[k].name = name}}

\* the count of the last occurrence of a name in a list of tags
LastCountIn(tags, name) ==
    {CountOf(tags[i]) : i \in {k \in DOMAIN tags :
                                  tags[k].name = name
                                  /\ \A l \in DOMAIN tags : l > k => tags[l].name # name}}

\* the output holds every name of both sources exactly once
EachNameOnce ==
    /\ Len(result) = Cardinality(SeenNames)
    /\ {result[i].name : i \in DOMAIN result} = SeenNames

\* C7 as stated: the output holds each distinct name of the two sources
\* once, and the count used for a name is the maximum of all the counts seen
\* for it (a missing count is 0).
C7_MaxOfAllCountsAsStated ==
    Merged =>
        /\ EachNameOnce
        /\ \A n \in SeenNames :
              UsedCount(n) = SetMax(CountsIn(TopTags, n) \cup CountsIn(GroupTags, n))

\* C7 amended: among the top-level tags the last occurrence of a name sets
\* its count; the count used is the maximum of that count and of the counts
\* of the name in the tag groups, never a sum.
C7_MaxOfMergedCounts ==
    Merged =>
        /\ EachNameOnce
        /\ \A n \in SeenNames :
              UsedCount(n) = SetMax(LastCountIn(TopTags, n) \cup CountsIn(GroupTags, n))

\* a name with the top-level count 1 and the tag-group count 2
C7_Witness ==
    /\ Merged
    /\ CountsIn(TopTags, "a") = {1}
    /\ CountsIn(GroupTags, "a") = {2}
    /\ UsedCount("a") = 2
    /\ Len(result) = 1

\* the names of a list of tags in the order of their first occurrence
RECURSIVE FirstSeen(_, _)
FirstSeen(tags, seen) ==
    IF tags = <<>> THEN <<>>
    ELSE IF Head(tags).name \in seen THEN FirstSeen(Tail(tags), seen)
    ELSE <<Head(tags).name>> \o FirstSeen(Tail(tags), seen \cup {Head(tags).name})

InsertionOrder == FirstSeen(TopTags \o GroupTags, {})

InsertedAt(name) == CHOOSE i \in DOMAIN InsertionOrder : InsertionOrder[i] = name

\* C8: the output of fetchTags is in descending order of the merged count,
\* and tags of equal count are in the order of their first insertion, the
\* top-level tags before the tag-group tags.
C8_DescendingStable ==
    Merged =>
        \A i, j \in DOMAIN result :
            i < j =>
                /\ UsedCount(result[i].name) >= UsedCount(result[j].name)
                /\ UsedCount(result[i].name) = UsedCount(result[j].name)
                      => InsertedAt(result[i].name) < InsertedAt(result[j].name)

\* three tags: the one inserted last has the largest count and comes first,
\* the other two tie and keep their order
C8_Witness ==
    /\ Merged
    /\ InsertionOrder = <<"b", "a", "c">>
    /\ UsedCount("a") = 1
    /\ Len(result) = 3
    /\ result[1].name = "c" /\ result[2].name = "b" /\ result[3].name = "a"

\* the positions of the requests of the running call that go to /site.json
SiteRequestPositions == {i \in 1..Len(requests) : requests[i] = SiteRequest}

\* what the capability check of the call found: the can_create_tag of a 200
\* answer when that is true (or another truthy value), false otherwise
CheckFound ==
    IF /\ Len(responses) = 2
       /\ ~responses[2].threw
       /\ responses[2].status = 200
       /\ responses[2].json = "object"
       /\ responses[2].body.can_create_tag \in {JBool(TRUE), JNum(1)}
    THEN responses[2].body.can_create_tag
    ELSE JBool(FALSE)

\* the capability check of the call failed
CheckFailed ==
    /\ Len(responses) = 2
    /\ responses[2].threw \/ responses[2].status # 200 \/ responses[2].json # "object"

\* C9 as stated: every fetchTags call performs the capability check once,
\* and every tag of the output carries the result of that check.
C9_CheckOncePerCallAsStated ==
    Done("fetchTags") =>
        /\ Cardinality(SiteRequestPositions) = 1
        /\ \A i \in DOMAIN result : result[i].canCreate = CheckFound

\* C9 amended: a fetchTags call performs the capability check at most once,
\* and exactly once when GET /tags.json was answered 200 with a body that
\* has a tags field (otherwise not at all); every tag of the output carries
\* the result of that check, and a failed check gives canCreate false on
\* every tag without failing fetchTags.
C9_CheckAtMostOncePerCall ==
    op = "fetchTags" =>
        /\ Cardinality(SiteRequestPositions) <= 1
        /\ pc = "done" =>
              /\ Cardinality(SiteRequestPositions) = 1
                    <=> (OwnRequest200({"object"}) /\ TagsBody.tags.kind # "absent")
              /\ \A i \in DOMAIN result : result[i].canCreate = CheckFound
              /\ (Merged /\ CheckFailed) =>
                    /\ ~escaped
                    /\ notices = <<>>
                    /\ EachNameOnce
                    /\ \A i \in DOMAIN result : result[i].canCreate = JBool(FALSE)

\* three tags returned after one check that found the capability
C9_Witness ==
    /\ Merged
    /\ Len(result) = 3
    /\ SiteRequestPositions = {2}
    /\ \A i \in DOMAIN result : result[i].canCreate = JBool(TRUE)

\* the categories of the answer to GET /categories.json
Categories == responses[1].body.categories

\* fetchCategories has returned the categories of a parsed list
Flattened ==
    /\ Done("fetchCategories")
    /\ OwnRequest200({"object"})
    /\ responses[1].body.category_list = "list"

SubcategoriesOf(c) == IF c.subcategory_list.present THEN c.subcategory_list.items ELSE <<>>

\* the number of subcategories of the first i categories
RECURSIVE SubcategoriesUpTo(_)
SubcategoriesUpTo(i) ==
    IF i = 0 THEN 0 ELSE SubcategoriesUpTo(i - 1) + Len(SubcategoriesOf(Categories[i]))

\* the place of the i-th top-level category in the output
PlaceOf(i) == i + SubcategoriesUpTo(i - 1)

\* C10: the output of fetchCategories has one entry per top-level category
\* and per subcategory; each top-level category stands right before its own
\* subcategories, the order of the response is kept, and a subcategory has
\* its own id and the name "{parent name} > {child name}".
C10_FlattenInOrder ==
    Flattened =>
        /\ notices = <<>>
        /\ Len(result) = Len(Categories) + SubcategoriesUpTo(Len(Categories))
        /\ \A i \in DOMAIN Categories :
              /\ result[PlaceOf(i)] = [id |-> Categories[i].id, name |-> Categories[i].name]
              /\ \A j \in DOMAIN SubcategoriesOf(Categories[i]) :
                    result[PlaceOf(i) + j] =
                        [id |-> SubcategoriesOf(Categories[i])[j].id,
                         name |-> Categories[i].name \o " > "
                                  \o SubcategoriesOf(Categories[i])[j].name]

\* one category with two subcategories: [parent, subcat1, subcat2]
C10_Witness ==
    /\ Flattened
    /\ Len(Categories) = 1
    /\ Categories[1].id = 1
    /\ Len(SubcategoriesOf(Categories[1])) = 2
    /\ result = <<[id |-> 1, name |-> "A"], [id |-> 2, name |-> "A > B"],
                  [id |-> 1, name |-> "A > A"]>>

----------------------------------------------------------------------------
(* Properties of checkCanCreateTags and testApiKey *)

\* the answer to the only request of the call
Answer == responses[1]

\* the call was answered with status 200 and a body parsed into an object
Answered200 == ~Answer.threw /\ Answer.status = 200 /\ Answer.json = "object"

\* C11: checkCanCreateTags returns a boolean and is silent: the value of
\* can_create_tag for a 200 answer whose field is present and truthy, false
\* for every failure (non-200, exception, missing body, missing or falsy
\* field); it never notifies and never throws.
C11_SilentBoolean ==
    Done("checkCanCreateTags") =>
        /\ ~escaped
        /\ notices = <<>>
        /\ result \in {JBool(TRUE), JBool(FALSE)}
        /\ result = IF Answered200 /\ Truthy(Answer.body.can_create_tag)
                    THEN Answer.body.can_create_tag
                    ELSE JBool(FALSE)

\* both settings are set
BothSettings == settings.baseUrl # <<>> /\ settings.userApiKey # ""

\* C12: with an empty baseUrl or API key testApiKey returns the
\* missing-settings failure without any request; a request to /site.json is
\* issued only when both settings are non-empty.
C12_NoRequestWithoutSettings ==
    op = "testApiKey" =>
        /\ ~BothSettings =>
              /\ pc = "done"
              /\ requests = <<>>
              /\ responses = <<>>
              /\ ~escaped
              /\ result = Tested(FALSE, t("MISSING_SETTINGS"))
        /\ BothSettings => requests = <<SiteRequest>>

\* testApiKey has returned with a base URL but no API key
C12_Witness ==
    /\ Done("testApiKey")
    /\ settings.baseUrl # <<>>
    /\ settings.userApiKey = ""
    /\ requests = <<>>
    /\ ~result.success

\* C13: testApiKey returns success: true exactly when both settings are
\* non-empty and /site.json is answered 200 with a truthy body; a 200 with a
\* falsy body gives the API-key-invalid message, another status gives it
\* with the status code, an exception gives it with the exception message
\* (with the unknown-error text when the exception has no message).
C13_SuccessIff200WithBody ==
    Done("testApiKey") =>
        /\ ~escaped
        /\ result.success <=> (BothSettings /\ Answered200)
        /\ BothSettings =>
              result.message =
                  IF Answer.threw
                  THEN t("API_KEY_INVALID") \o ": "
                       \o (IF Answer.message = "" THEN t("UNKNOWN_ERROR") ELSE Answer.message)
                  ELSE IF Answer.status # 200
                  THEN t("API_KEY_INVALID") \o " (" \o ToString(Answer.status) \o ")"
                  ELSE IF Answer.json = "null" THEN t("API_KEY_INVALID")
                  ELSE IF Answer.json = "throws"
                  THEN t("API_KEY_INVALID") \o ": " \o JsonSyntaxError
                  ELSE t("API_TEST_SUCCESS")

\* testApiKey answered 200 with a null body: the key counts as invalid
C13_Witness ==
    /\ Done("testApiKey")
    /\ BothSettings
    /\ ~Answer.threw /\ Answer.status = 200 /\ Answer.json = "null"
    /\ result = Tested(FALSE, t("API_KEY_INVALID"))

----------------------------------------------------------------------------
(* Properties of the calls as a whole *)

\* the request was not served: it threw or was answered with another status
Failed(r) == r.threw \/ r.status # 200

\* the most requests one call of the operation may issue
MostRequests(name) == IF name \in {"updatePost", "fetchTags"} THEN 2 ELSE 1

\* C14: no operation retries: a call never contacts an endpoint twice, a
\* failed request is the last request of its call, and a call issues at most
\* two requests for updatePost (post PUT, topic PUT) and fetchTags
\* (tags.json, site.json), at most one for every other operation.
C14_NoRetry ==
    /\ \A i, j \in DOMAIN requests : requests[i] = requests[j] => i = j
    /\ Len(responses) <= Len(requests)
    /\ \A i \in DOMAIN responses :
          Failed(responses[i]) => pc = "done" /\ Len(requests) = i
    /\ Len(requests) <= MostRequests(op)
    /\ Len(requests) = 2 /\ op = "updatePost" =>
          requests = <<PostPut(args.postId), TopicPut(args.topicId)>>
    /\ Len(requests) = 2 /\ op = "fetchTags" =>
          requests = <<TagsRequest, SiteRequest>>

\* fetchTags has returned after a refused tags.json request, which stayed
\* its only request
C14_Witness ==
    /\ Done("fetchTags")
    /\ Len(requests) = 1
    /\ ~responses[1].threw /\ responses[1].status # 200
    /\ responses[1].json = "object" /\ responses[1].body.tags.kind # "absent"

\* C16: updatePost returns success: true exactly when both the post PUT and
\* the topic PUT of the call returned 200; when the post PUT returned 200
\* and the topic PUT failed, the call returns success: false and the two
\* PUTs stay its only requests.
C16_SuccessIffBothPuts200 ==
    Done("updatePost") =>
        /\ ~escaped
        /\ result.success <=>
              /\ Len(responses) = 2
              /\ ~Failed(responses[1])
              /\ ~Failed(responses[2])
        /\ Len(responses) = 2 /\ ~Failed(responses[1]) /\ Failed(responses[2]) =>
              /\ ~result.success
              /\ requests = <<PostPut(args.postId), TopicPut(args.topicId)>>

\* updatePost has returned after an accepted post PUT and a refused topic PUT
C16_Witness ==
    /\ Done("updatePost")
    /\ Len(responses) = 2
    /\ ~Failed(responses[1])
    /\ ~responses[2].threw /\ responses[2].status # 200
    /\ ~result.success
    /\ Len(requests) = 2

\* the notifications of the catch handler of fetchTopicTags
TopicTagsNotices ==
    {"Exception while fetching topic tags: " \o ErrorText(m) :
        m \in ExceptionMessages \cup {JsonSyntaxError, NullReadError, NotAFunctionError}}

\* C17: a fetchTopicTags call notifies at most once: fetchTopicInfo never
\* lets an exception escape (one notification on an exception, none on a
\* non-200 status, empty tags in both cases), so the notification of
\* fetchTopicTags' own handler is never raised.
C17_AtMostOneNotice ==
    /\ Done("fetchTopicInfo") =>
          /\ ~escaped
          /\ Answer.threw \/ (Answer.status = 200 /\ Answer.json = "throws") =>
                Len(notices) = 1 /\ result.tags = <<>>
          /\ ~Answer.threw /\ Answer.status # 200 =>
                notices = <<>> /\ result.tags = <<>>
    /\ Done("fetchTopicTags") =>
          /\ ~escaped
          /\ Len(notices) <= 1
          /\ \A i \in DOMAIN notices : notices[i] \notin TopicTagsNotices
          /\ Failed(Answer) => result = <<>>
          /\ Answer.threw =>
                notices = <<"Exception while fetching topic info: " \o ErrorText(Answer.message)>>
          /\ ~Answer.threw /\ Answer.status # 200 => notices = <<>>

\* fetchTopicTags has returned after its request threw, with one notification
C17_Witness ==
    /\ Done("fetchTopicTags")
    /\ Answer.threw
    /\ Len(notices) = 1
    /\ result = <<>>

\* the operations of the client
Operations ==
    {"uploadImage", "createPost", "updatePost", "fetchCategories", "fetchTags",
     "checkCanCreateTags", "testApiKey", "fetchTopicInfo", "fetchTopicTags"}

\* the call is suspended on a file read or a request
Suspended == pc \notin {"idle", "done"}

\* every request the call has issued has been answered or has failed
AllAnswered == pc # "read" /\ Len(responses) = Len(requests)

\* C15: every operation completes by returning a value once its requests
\* are answered or fail: a suspended call waits for its file read or for
\* exactly one request, a call whose requests are all answered has
\* returned, and no call ends with an exception propagating to the caller.
C15_CompletesWithValue ==
    /\ pc = "done" => op \in Operations /\ ~escaped
    /\ Suspended =>
          /\ op \in Operations
          /\ IF pc = "read" THEN op = "uploadImage" /\ requests = <<>>
             ELSE Len(requests) = Len(responses) + 1
    /\ op \in Operations /\ AllAnswered => pc = "done" /\ ~escaped

\* fetchTags has returned a value after its request to /site.json threw
C15_Witness ==
    /\ Done("fetchTags")
    /\ Len(responses) = 2
    /\ responses[2].threw
    /\ ~escaped

====
